---------------------------- MODULE Spec2Model ----------------------------
(***************************************************************************)
(* Model of k2fsr_a.c: the GF(2^8) arithmetic, the coefficient builder,    *)
(* the alpha table builder and the FSR-A register update of KCipher-2,     *)
(* together with the run of main that calls them.                          *)
(*                                                                         *)
(* Representation.  TLC's integers are 32-bit signed, so a uint32_t that   *)
(* can use bit 31 (a table entry, a register word) is a tuple of its four  *)
(* bytes, least significant first: w[1] is bits 0..7 (byte lane 0), w[4]   *)
(* is bits 24..31 (lane 3).  A shift of a word discards the bytes moved    *)
(* past bit 31.  The uint32_t values of the field arithmetic (a multiplier,*)
(* an accumulator, a product) are naturals: for the operands modelled      *)
(* (below 2^9) every intermediate value stays below 2^18, so no 32-bit     *)
(* wrap-around occurs in them.                                             *)
(***************************************************************************)
EXTENDS Integers, Sequences, FiniteSets, TLC

(* ---- program constants (#define) ---- *)
BETA_GF == 451
ALPHA_SIZE == 4
TABLE_SIZE == 256
GF_INDEX == 8
FSR_A_SIZE == 5
LOOP_A == 64

beta_index == <<71, 12, 3, 24>>

(* ---- bounds of the model ---- *)
MaxSteps == 8
MaxCalls == 6

(* ---- bit operations on naturals ---- *)
RECURSIVE Pow2(_)
Pow2(k) == IF k = 0 THEN 1 ELSE 2 * Pow2(k - 1)

\* x >> k
Shr(x, k) == x \div Pow2(k)

\* (x & (PICK1 << k)) != 0, as 0 or 1; PICK8 is PICK1 << 8
Bit(x, k) == Shr(x, k) % 2

RECURSIVE BitXor(_, _)
BitXor(x, y) ==
    IF x = 0 THEN y
    ELSE IF y = 0 THEN x
    ELSE (((x % 2) + (y % 2)) % 2) + 2 * BitXor(x \div 2, y \div 2)

RECURSIVE BitOr(_, _)
BitOr(x, y) ==
    IF x = 0 THEN y
    ELSE IF y = 0 THEN x
    ELSE (IF (x % 2) + (y % 2) > 0 THEN 1 ELSE 0) + 2 * BitOr(x \div 2, y \div 2)

\* C's logical negation
LogicalNot(x) == IF x = 0 THEN 1 ELSE 0

(* ---- 32-bit words as four bytes, least significant first ---- *)
Byte == 0 .. 255
Word == [1 .. 4 -> Byte]

\* the word written as its bytes from the most significant down, as in hex
W(b3, b2, b1, b0) == <<b0, b1, b2, b3>>

\* a natural below 2^31 converted to uint32_t
ToWord(n) == <<n % 256, (n \div 256) % 256, (n \div 65536) % 256, (n \div 16777216) % 256>>

\* w << (8 * j) in 32 bits: the bytes moved past bit 31 are discarded
ShlBytes(w, j) == [k \in 1 .. 4 |-> IF k - j >= 1 THEN w[k - j] ELSE 0]

\* w >> 16 taken for w >> 24
TopByte_shr16(w) == w[4] * 256 + w[3]

\* w >> 24
TopByte(w) == w[4]

XorWord(u, v) == [k \in 1 .. 4 |-> BitXor(u[k], v[k])]
OrWord(u, v) == [k \in 1 .. 4 |-> BitOr(u[k], v[k])]

ZeroWord == W(0, 0, 0, 0)
ZeroTable == [i \in 0 .. TABLE_SIZE - 1 |-> ZeroWord]

(* ---- parity8 ---- *)
parity8(x) ==
    LET p0 == x
        p1 == BitXor(p0, Shr(p0, 4))
        p2 == BitXor(p1, Shr(p1, 2))
        p3 == BitXor(p2, Shr(p2, 1))
    IN  p3 % 2

(* ---- multi_GF ---- *)
\* first loop: the highest bit of num among bits 7..0 that is set, -1 if none
RECURSIVE HighBit(_, _)
HighBit(num, pos) ==
    IF pos < 0 THEN pos
    ELSE IF Bit(num, pos) = 1 THEN pos
    ELSE HighBit(num, pos - 1)

\* the second loop stopped before bit 0 (i > 0 for i >= 0)
RECURSIVE GFLoop_skips_bit0(_, _, _, _, _, _)
GFLoop_skips_bit0(t, i, a, num, gf, gf_idx) ==
    IF i <= 0 THEN t
    ELSE LET t1 == BitXor(t * 2, IF Bit(num, i) = 1 THEN a ELSE 0)
             t2 == IF Bit(t1, gf_idx) = 1 THEN BitXor(t1, gf) ELSE t1
         IN  GFLoop_skips_bit0(t2, i - 1, a, num, gf, gf_idx)

\* the second loop without the reduction by gf
RECURSIVE GFLoop_no_reduce(_, _, _, _, _, _)
GFLoop_no_reduce(t, i, a, num, gf, gf_idx) ==
    IF i < 0 THEN t
    ELSE LET t1 == BitXor(t * 2, IF Bit(num, i) = 1 THEN a ELSE 0)
         IN  GFLoop_no_reduce(t1, i - 1, a, num, gf, gf_idx)

\* second loop, from bit i down to bit 0
RECURSIVE GFLoop(_, _, _, _, _, _)
GFLoop(t, i, a, num, gf, gf_idx) ==
    IF i < 0 THEN t
    ELSE LET t1 == BitXor(t * 2, IF Bit(num, i) = 1 THEN a ELSE 0)
             t2 == IF Bit(t1, gf_idx) = 1 THEN BitXor(t1, gf) ELSE t1
         IN  GFLoop(t2, i - 1, a, num, gf, gf_idx)

\* multi_GF with the scan for the highest set bit started at bit 6
multi_GF_from_bit6(a, num, gf, gf_idx) == GFLoop(0, HighBit(num, 6), a, num, gf, gf_idx)

multi_GF(a, num, gf, gf_idx) == GFLoop(0, HighBit(num, 7), a, num, gf, gf_idx)

(* ---- make_coefficients ---- *)
\* the fold value with the parity bit added to gf, not ORed into it
FoldValue_plus(m, gf) == gf + LogicalNot(parity8(BitXor(m, gf)))

\* the value XORed into an accumulator m whose bit 8 is set
FoldValue(m, gf) == BitOr(gf, LogicalNot(parity8(BitXor(m, gf))))

\* the inner loop: n passes on accumulator m, each a shift and, when bit 8
\* (PICK8) of the shifted accumulator is set, the fold
RECURSIVE CoefLoop(_, _, _)
CoefLoop(m, n, gf) ==
    IF n <= 0 THEN m
    ELSE LET s == m * 2
         IN  IF Bit(s, 8) = 1
             THEN CoefLoop(BitXor(s, FoldValue(s, gf)), n - 1, gf)
             ELSE CoefLoop(s, n - 1, gf)

\* make_coefficients starting every accumulator at 1 itself
make_coefficients_from_one(multi, index, gf) ==
    [i \in 1 .. ALPHA_SIZE |-> CoefLoop(1, index[i], gf)]

make_coefficients(multi, index, gf) ==
    [i \in 1 .. ALPHA_SIZE |-> CoefLoop(multi[i], index[i], gf)]

\* the values XORed into accumulator m during the n passes of the inner loop
RECURSIVE CoefFolds(_, _, _)
CoefFolds(m, n, gf) ==
    IF n <= 0 THEN {}
    ELSE LET s == m * 2
         IN  IF Bit(s, 8) = 1
             THEN {FoldValue(s, gf)} \cup CoefFolds(BitXor(s, FoldValue(s, gf)), n - 1, gf)
             ELSE CoefFolds(s, n - 1, gf)

(* ---- make_alpha_table ---- *)
\* the inner loop with alpha[i] assigned, not ORed into
RECURSIVE AlphaEntry_assign(_, _, _, _, _)
AlphaEntry_assign(w, i, j, multi, gf) ==
    IF j >= ALPHA_SIZE THEN w
    ELSE LET temp_u32 == multi_GF(multi[j + 1], i, gf, GF_INDEX)
         IN  AlphaEntry_assign(ShlBytes(ToWord(temp_u32), j), i, j + 1, multi, gf)

\* the inner loop on entry i, from lane j on, w being alpha[i] so far
RECURSIVE AlphaEntry(_, _, _, _, _)
AlphaEntry(w, i, j, multi, gf) ==
    IF j >= ALPHA_SIZE THEN w
    ELSE LET temp_u32 == multi_GF(multi[j + 1], i, gf, GF_INDEX)
         IN  AlphaEntry(OrWord(w, ShlBytes(ToWord(temp_u32), j)), i, j + 1, multi, gf)

\* make_alpha_table clearing the table before it fills it
make_alpha_table_zeroing(alpha, multi, gf) ==
    [i \in 0 .. TABLE_SIZE - 1 |-> AlphaEntry(ZeroWord, i, 0, multi, gf)]

make_alpha_table(alpha, multi, gf) ==
    [i \in 0 .. TABLE_SIZE - 1 |-> AlphaEntry(alpha[i], i, 0, multi, gf)]

(* ---- update_fsr ---- *)
\* fb, computed before any register is overwritten
Feedback(fsr, alpha) ==
    XorWord(XorWord(ShlBytes(fsr[1], 1), alpha[TopByte(fsr[1])]), fsr[4])

\* update_fsr with fb computed after the registers were shifted
update_fsr_fb_last(fsr, alpha) ==
    LET f0 == [fsr EXCEPT ![1] = fsr[2]]
        f1 == [f0 EXCEPT ![2] = f0[3]]
        f2 == [f1 EXCEPT ![3] = f1[4]]
        f3 == [f2 EXCEPT ![4] = f2[5]]
    IN  [f3 EXCEPT ![5] = Feedback(f3, alpha)]

update_fsr(fsr, alpha) ==
    LET fb == Feedback(fsr, alpha)
        f0 == [fsr EXCEPT ![1] = fsr[2]]
        f1 == [f0 EXCEPT ![2] = f0[3]]
        f2 == [f1 EXCEPT ![3] = f1[4]]
        f3 == [f2 EXCEPT ![4] = f2[5]]
    IN  [f3 EXCEPT ![5] = fb]

(* ---- the state ---- *)
VARIABLES
    pc,          \* the position in main, or the name of the harness
    beta_multi,  \* main's beta_multi[ALPHA_SIZE]
    alpha_0,     \* main's alpha_0[TABLE_SIZE]
    fsr_a,       \* main's fsr_a[FSR_A_SIZE]
    loop,        \* the number of update_fsr calls made (main's i)
    ncalls,      \* the number of setup calls made
    last,        \* the latest call: its function and its arguments on entry
    ret          \* the value the latest multi_GF calls returned

vars == <<pc, beta_multi, alpha_0, fsr_a, loop, ncalls, last, ret>>

NoCall == [fn |-> "none"]

(* ---- inputs ---- *)
MainSeed ==
    << W(190, 60, 169, 132), W(151, 78, 103, 25), W(134, 145, 110, 255),
       W(245, 45, 172, 249), W(150, 3, 41, 181) >>

SeedWords == { ZeroWord, W(255, 255, 255, 255) }
Seeds == {MainSeed} \cup [1 .. FSR_A_SIZE -> SeedWords]

Ones == <<1, 1, 1, 1>>

(* ---- the run of main ---- *)
Init ==
    /\ pc = "make_coefficients"
    /\ beta_multi = Ones
    /\ alpha_0 = ZeroTable
    /\ fsr_a \in Seeds
    /\ loop = 0
    /\ ncalls = 0
    /\ last = NoCall
    /\ ret = <<>>

MakeCoefficients ==
    /\ pc = "make_coefficients"
    /\ beta_multi' = make_coefficients(beta_multi, beta_index, BETA_GF)
    /\ last' = [fn |-> "make_coefficients", multi |-> beta_multi]
    /\ ncalls' = ncalls + 1
    /\ pc' = "make_alpha_table"
    /\ UNCHANGED <<alpha_0, fsr_a, loop, ret>>

MakeAlphaTable ==
    /\ pc = "make_alpha_table"
    /\ alpha_0' = make_alpha_table(alpha_0, beta_multi, BETA_GF)
    /\ last' = [fn |-> "make_alpha_table", alpha |-> alpha_0, multi |-> beta_multi]
    /\ ncalls' = ncalls + 1
    /\ pc' = "update_fsr"
    /\ UNCHANGED <<beta_multi, fsr_a, loop, ret>>

\* the call of update_fsr storing its feedback word in the table as well
UpdateFsr_writes_table ==
    /\ pc = "update_fsr"
    /\ loop < LOOP_A
    /\ fsr_a' = update_fsr(fsr_a, alpha_0)
    /\ alpha_0' = [alpha_0 EXCEPT ![TopByte(fsr_a[1])] = Feedback(fsr_a, alpha_0)]
    /\ last' = [fn |-> "update_fsr", fsr |-> fsr_a]
    /\ loop' = loop + 1
    /\ UNCHANGED <<pc, beta_multi, ncalls, ret>>

UpdateFsr ==
    /\ pc = "update_fsr"
    /\ loop < LOOP_A
    /\ fsr_a' = update_fsr(fsr_a, alpha_0)
    /\ last' = [fn |-> "update_fsr", fsr |-> fsr_a]
    /\ loop' = loop + 1
    /\ UNCHANGED <<pc, beta_multi, alpha_0, ncalls, ret>>

Return ==
    /\ pc = "update_fsr"
    /\ loop = LOOP_A
    /\ pc' = "done"
    /\ UNCHANGED <<beta_multi, alpha_0, fsr_a, loop, ncalls, last, ret>>

Next == MakeCoefficients \/ MakeAlphaTable \/ UpdateFsr \/ Return

Spec == Init /\ [][Next]_vars

(* ---- the register stepped from any seed with any table ---- *)
BetaMulti == make_coefficients(Ones, beta_index, BETA_GF)
BetaTable == make_alpha_table(ZeroTable, BetaMulti, BETA_GF)
RampTable == [i \in 0 .. TABLE_SIZE - 1 |-> W(i, 255 - i, (i * 7) % 256, 165)]
Tables == { BetaTable, ZeroTable, RampTable }

InitStep ==
    /\ pc = "step"
    /\ beta_multi = BetaMulti
    /\ alpha_0 \in Tables
    /\ fsr_a \in Seeds
    /\ loop = 0
    /\ ncalls = 0
    /\ last = NoCall
    /\ ret = <<>>

Step ==
    /\ pc = "step"
    /\ loop < MaxSteps
    /\ fsr_a' = update_fsr(fsr_a, alpha_0)
    /\ last' = [fn |-> "update_fsr", fsr |-> fsr_a]
    /\ loop' = loop + 1
    /\ UNCHANGED <<pc, beta_multi, alpha_0, ncalls, ret>>

SpecStep == InitStep /\ [][Step]_vars

(* ---- multi_GF called on any two field elements, in both orders ---- *)
InitGF ==
    /\ pc = "multi_GF"
    /\ beta_multi = Ones
    /\ alpha_0 = ZeroTable
    /\ fsr_a = MainSeed
    /\ loop = 0
    /\ ncalls = 0
    /\ last = NoCall
    /\ ret = <<>>

CallMultiGF ==
    /\ pc = "multi_GF"
    /\ \E a \in 0 .. TABLE_SIZE - 1, num \in 0 .. TABLE_SIZE - 1 :
          /\ last' = [fn |-> "multi_GF", a |-> a, num |-> num]
          /\ ret' = << multi_GF(a, num, BETA_GF, GF_INDEX),
                       multi_GF(num, a, BETA_GF, GF_INDEX) >>
    /\ pc' = "done"
    /\ UNCHANGED <<beta_multi, alpha_0, fsr_a, loop, ncalls>>

SpecGF == InitGF /\ [][CallMultiGF]_vars

(* ---- the setup functions re-invoked, in any order, on main's arrays ---- *)
InitSetup ==
    /\ pc = "setup"
    /\ beta_multi = Ones
    /\ alpha_0 = ZeroTable
    /\ fsr_a = MainSeed
    /\ loop = 0
    /\ ncalls = 0
    /\ last = NoCall
    /\ ret = <<>>

CallMakeCoefficients ==
    /\ pc = "setup"
    /\ ncalls < MaxCalls
    /\ beta_multi' = make_coefficients(beta_multi, beta_index, BETA_GF)
    /\ last' = [fn |-> "make_coefficients", multi |-> beta_multi]
    /\ ncalls' = ncalls + 1
    /\ UNCHANGED <<pc, alpha_0, fsr_a, loop, ret>>

CallMakeAlphaTable ==
    /\ pc = "setup"
    /\ ncalls < MaxCalls
    /\ alpha_0' = make_alpha_table(alpha_0, beta_multi, BETA_GF)
    /\ last' = [fn |-> "make_alpha_table", alpha |-> alpha_0, multi |-> beta_multi]
    /\ ncalls' = ncalls + 1
    /\ UNCHANGED <<pc, beta_multi, fsr_a, loop, ret>>

NextSetup == CallMakeCoefficients \/ CallMakeAlphaTable

SpecSetup == InitSetup /\ [][NextSetup]_vars

(***************************************************************************)
(* The claims.                                                             *)
(***************************************************************************)

\* the 16-bit halves of a word, as numbers
Hi16(w) == w[4] * 256 + w[3]
Lo16(w) == w[2] * 256 + w[1]

\* C1: one step on [A,B,C,D,E] yields [B,C,D,E,F] with
\* F = ((A << 8) mod 2^32) XOR table[A >> 24] XOR D, computed from the values
\* A and D had before the step; it holds for each step of a sequence of steps
\* and for every table.  F is computed here on the 16-bit halves of the words.
C1_Step ==
    last.fn = "update_fsr" =>
        LET A == last.fsr[1]
            D == last.fsr[4]
            T == alpha_0[Hi16(A) \div 256]
            F == fsr_a[5]
        IN  /\ fsr_a[1] = last.fsr[2]
            /\ fsr_a[2] = last.fsr[3]
            /\ fsr_a[3] = last.fsr[4]
            /\ fsr_a[4] = last.fsr[5]
            /\ F \in Word
            /\ Hi16(F) = BitXor(BitXor((Hi16(A) * 256 + Lo16(A) \div 256) % 65536,
                                       Hi16(T)), Hi16(D))
            /\ Lo16(F) = BitXor(BitXor((Lo16(A) * 256) % 65536, Lo16(T)), Lo16(D))

\* a third or later step whose A has a top byte that the shift discards, with
\* a table entry and a D that are not zero
C1_Witness ==
    /\ last.fn = "update_fsr"
    /\ loop >= 3
    /\ TopByte(last.fsr[1]) # 0
    /\ alpha_0[TopByte(last.fsr[1])] # ZeroWord
    /\ last.fsr[4] # ZeroWord
    /\ last.fsr[1] # last.fsr[2]

\* C9: in every state reached by any number of steps from any seed, the
\* register holds five 32-bit words and the index step uses, state[0] >> 24,
\* is an index of the 256-entry table.
C9_IndexInTable ==
    /\ fsr_a \in [1 .. FSR_A_SIZE -> Word]
    /\ DOMAIN alpha_0 = 0 .. TABLE_SIZE - 1
    /\ TopByte(fsr_a[1]) \in DOMAIN alpha_0
    /\ last.fn = "update_fsr" => TopByte(last.fsr[1]) \in DOMAIN alpha_0

\* a step that read the last entry of the table, after the seed was shifted out
C9_Witness ==
    /\ last.fn = "update_fsr"
    /\ loop > FSR_A_SIZE
    /\ TopByte(last.fsr[1]) = TABLE_SIZE - 1

\* C3: multi_GF with modulus 0x1C3 and reduce bit 8 is commutative on
\* [0,256): the two calls with the operands exchanged return the same value.
C3_Commutative ==
    last.fn = "multi_GF" => ret[1] = ret[2]

\* two different operands, neither 0 nor 1, whose product needed a reduction
C3_Witness ==
    /\ last.fn = "multi_GF"
    /\ last.a = 200
    /\ last.num = 3
    /\ ret[1] # 0
    /\ ret[1] < TABLE_SIZE

\* C4: for every a in [0,256), multi_GF(a, 0) = 0, the bit loop running zero
\* times because no bit of the second operand is set, and multi_GF(a, 1) = a.
C4_ZeroAndOne ==
    last.fn = "multi_GF" =>
        /\ last.num = 0 => (ret[1] = 0 /\ HighBit(last.num, 7) < 0)
        /\ last.num = 1 => ret[1] = last.a

\* multi_GF(255, 1) was called and returned 255
C4_Witness ==
    /\ last.fn = "multi_GF"
    /\ last.a = 255
    /\ last.num = 1
    /\ ret[1] = 255

\* byte lane j of a word: (w >> (8 * j)) AND 0xFF
Lane(w, j) ==
    IF j < 2 THEN (Lo16(w) \div Pow2(8 * j)) % 256
    ELSE (Hi16(w) \div Pow2(8 * (j - 2))) % 256

\* the generator 2 raised to e from acc by e field multiplications by 2, as
\* long as the products are field elements of [0,255]; -1 otherwise
RECURSIVE GenPow(_, _)
GenPow(acc, e) ==
    IF e <= 0 THEN acc
    ELSE LET p == multi_GF(acc, 2, BETA_GF, GF_INDEX)
         IN  IF p \in Byte THEN GenPow(p, e - 1) ELSE -1

\* C2: when make_alpha_table has run in main (on the zero-filled table, with
\* the multipliers built from [71,12,3,24] and 0x1C3), byte lane j of table[i]
\* is multi_GF(multipliers[j], i, 0x1C3, 8) for all i in [0,256) and j in
\* [0,4): every product fits its lane and no lane spills into the next.
C2_Lanes ==
    last.fn = "make_alpha_table" =>
        \A i \in 0 .. TABLE_SIZE - 1 : \A j \in 0 .. ALPHA_SIZE - 1 :
            /\ multi_GF(beta_multi[j + 1], i, BETA_GF, GF_INDEX) \in Byte
            /\ Lane(alpha_0[i], j) = multi_GF(beta_multi[j + 1], i, BETA_GF, GF_INDEX)

\* the table is built and its last entry has four lanes that all differ
C2_Witness ==
    /\ last.fn = "make_alpha_table"
    /\ last.alpha = ZeroTable
    /\ Cardinality({Lane(alpha_0[TABLE_SIZE - 1], j) : j \in 0 .. ALPHA_SIZE - 1}) = ALPHA_SIZE
    /\ \A j \in 0 .. ALPHA_SIZE - 1 : Lane(alpha_0[TABLE_SIZE - 1], j) # 0

\* C5: after make_coefficients ran in main on accumulators that start at 1,
\* each multiplier is a field element of [0,255] equal to the generator 2
\* raised to its exponent by repeated multi_GF(., 2, 0x1C3, 8), and every value
\* that was XORed into an accumulator is the modulus itself: the OR-in-1 never
\* changes it.
C5_GeneratorPowers ==
    last.fn = "make_coefficients" =>
        \A i \in 1 .. ALPHA_SIZE :
            /\ last.multi[i] = 1
            /\ beta_multi[i] \in Byte
            /\ beta_multi[i] = GenPow(1, beta_index[i])
            /\ CoefFolds(last.multi[i], beta_index[i], BETA_GF) \subseteq {BETA_GF}

\* make_coefficients has returned, and the accumulator of exponent 71 was
\* folded at least once on the way to 2^71 = 0x1A
C5_Witness ==
    /\ last.fn = "make_coefficients"
    /\ pc = "make_alpha_table"
    /\ CoefFolds(last.multi[1], beta_index[1], BETA_GF) # {}
    /\ beta_multi = <<26, 109, 8, 182>>

\* C8: in the run of main no update_fsr call happens before make_alpha_table
\* has completed, and from then on the table and the multipliers keep their
\* values: a step changes only the five register words.
C8_SetupThenReadOnly ==
    [][ /\ loop' # loop =>
              /\ pc = "update_fsr"
              /\ last.fn \in {"make_alpha_table", "update_fsr"}
              /\ alpha_0 = BetaTable
              /\ beta_multi = BetaMulti
        /\ pc \in {"update_fsr", "done"} =>
              /\ alpha_0' = alpha_0
              /\ beta_multi' = beta_multi
              /\ ncalls' = ncalls ]_vars

\* all 64 steps are made and the table and the multipliers are those of setup
C8_Witness ==
    /\ pc = "done"
    /\ loop = LOOP_A
    /\ last.fn = "update_fsr"
    /\ fsr_a # MainSeed
    /\ alpha_0 = BetaTable
    /\ beta_multi = BetaMulti

\* the state before the step that led to successor s, recovered as the claim
\* says: A's top byte from the low byte of F XOR D, A's low 24 bits from
\* (F XOR D XOR table[top byte]) >> 8
Predecessor(s, table) ==
    LET X == XorWord(s[5], s[3])
        top == CHOOSE i \in 0 .. TABLE_SIZE - 1 : table[i][1] = X[1]
        Y == XorWord(X, table[top])
        A == <<Y[2], Y[3], Y[4], top>>
    IN  <<A, s[1], s[2], s[3], s[4]>>

\* C10: with the table built from [71,12,3,24] and 0x1C3, step is injective:
\* i -> table[i] AND 0xFF is a permutation of [0,256), and the state before a
\* step is recovered from the state after it.
C10_Injective ==
    pc \in {"update_fsr", "done"} =>
        /\ {alpha_0[i][1] : i \in 0 .. TABLE_SIZE - 1} = Byte
        /\ last.fn = "update_fsr" => Predecessor(fsr_a, alpha_0) = last.fsr

\* a step of main's own seed was undone, the one before the last
C10_Witness ==
    /\ last.fn = "update_fsr"
    /\ loop = LOOP_A
    /\ fsr_a[5] = W(135, 156, 164, 24)
    /\ Predecessor(fsr_a, alpha_0) = last.fsr
    /\ TopByte(last.fsr[1]) # 0

\* the table of the packed lanes of multipliers multi
Lanes(multi, gf) ==
    [i \in 0 .. TABLE_SIZE - 1 |->
        [k \in 1 .. ALPHA_SIZE |-> multi_GF(multi[k], i, gf, GF_INDEX)]]

OrTable(s, t) == [i \in 0 .. TABLE_SIZE - 1 |-> OrWord(s[i], t[i])]

\* C6 as stated: make_alpha_table zero-initializes the table, so whatever the
\* array held before the call, the result is the table that the multipliers and
\* the modulus determine.
C6_AsStated ==
    last.fn = "make_alpha_table" => alpha_0 = Lanes(last.multi, BETA_GF)

\* C6 amended: make_alpha_table does not clear the table, it ORs the lanes
\* into what the array holds: the result is the prior contents OR the table
\* the multipliers and the modulus determine.  On a zero-filled array it is
\* that table, and a second call with the same multipliers on the array the
\* first call filled leaves it as it is.
C6_OrIntoPrior ==
    last.fn = "make_alpha_table" =>
        /\ alpha_0 = OrTable(last.alpha, Lanes(last.multi, BETA_GF))
        /\ last.alpha = ZeroTable => alpha_0 = Lanes(last.multi, BETA_GF)
        /\ last.alpha = Lanes(last.multi, BETA_GF) => alpha_0 = last.alpha

\* a call on a table that an earlier call filled with other multipliers
C6_Witness ==
    /\ last.fn = "make_alpha_table"
    /\ last.alpha # ZeroTable
    /\ last.alpha # Lanes(last.multi, BETA_GF)
    /\ alpha_0 # Lanes(last.multi, BETA_GF)

\* C7 as stated: make_coefficients starts each accumulator at 1 itself, so
\* every call returns the multipliers of the exponents, a second call on the
\* array that a first call filled included.
C7_AsStated ==
    last.fn = "make_coefficients" =>
        \A i \in 1 .. ALPHA_SIZE : beta_multi[i] = GenPow(1, beta_index[i])

\* C7 amended: make_coefficients continues from the values the array holds
\* (main sets them to 1): each element becomes the element it held times the
\* generator raised to its exponent.  From 1 that is the generator raised to
\* e; a second call on the array the first call filled gives the generator
\* raised to 2e (e more multiplications by 2), which differs.
C7_ContinuesFromArray ==
    last.fn = "make_coefficients" =>
        \A i \in 1 .. ALPHA_SIZE :
            /\ last.multi[i] \in Byte
            /\ beta_multi[i] =
                 multi_GF(last.multi[i], GenPow(1, beta_index[i]), BETA_GF, GF_INDEX)
            /\ last.multi[i] = 1 => beta_multi[i] = GenPow(1, beta_index[i])
            /\ last.multi[i] = GenPow(1, beta_index[i]) =>
                 /\ beta_multi[i] = GenPow(GenPow(1, beta_index[i]), beta_index[i])
                 /\ beta_multi[i] # last.multi[i]

\* the second of two calls, made on the array the first call filled
C7_Witness ==
    /\ last.fn = "make_coefficients"
    /\ ncalls = 2
    /\ last.multi = <<26, 109, 8, 182>>
    /\ beta_multi # last.multi

=============================================================================
